---- MODULE Spec2Model ----
(***************************************************************************)
(* EveryDreamBatch (data/every_dream.py): the per-epoch batch provider.    *)
(*                                                                         *)
(* Spec  : the calls are made one after the other (__init__, shuffle,      *)
(*         __len__, __getitem__); shuffle is followed statement by         *)
(*         statement, with no other call in between.                       *)
(* SpecC : a fetch thread runs __getitem__ while the trainer thread is     *)
(*         inside shuffle.  The object takes no lock, so the two interleave*)
(*         where they read or write self.seed / self.image_train_items.    *)
(* Floats are modelled as exact rationals (records num/den in lowest       *)
(* terms); the collaborators (data_loader, hydrate, open/write, random)    *)
(* are nondeterministic choices over the outcomes they can produce.        *)
(***************************************************************************)
EXTENDS Integers, Sequences, FiniteSets, TLC

(* ------------------------------ bounds --------------------------------- *)
MaxLen == 2            \* items in the pool = longest ordering the collaborator returns
MaxEpochs == 2         \* epoch_n and max_epochs range over 0..MaxEpochs
MaxShuffles == 2       \* shuffle() calls per behaviour
BatchSize == 2         \* data_loader.batch_size

(* ------------------------- program constants --------------------------- *)
DefaultSeed == 555     \* seed=555

Items == 1..MaxLen
\* what get_shuffled_image_buckets can return: the items it keeps, in any order
Orderings ==
    {o \in UNION {[1..n -> Items] : n \in 0..MaxLen} :
        \A a, b \in DOMAIN o : a # b => o[a] # o[b]}

(* ------------------------------ rationals ------------------------------ *)
Abs(n) == IF n < 0 THEN -n ELSE n

RECURSIVE GCD(_, _)
GCD(a, b) == IF b = 0 THEN a ELSE GCD(b, a % b)

\* a float value, kept exact: num/den in lowest terms, den > 0
Rat(n, d) ==
    LET g == GCD(Abs(n), Abs(d))
        s == IF d < 0 THEN -1 ELSE 1
    IN  [kind |-> "rat", num |-> s * (n \div g), den |-> s * (d \div g)]

ZeroDivisionError == [kind |-> "ZeroDivisionError"]
NoFraction == [kind |-> "none"]
FromInt(n) == Rat(n, 1)
One == FromInt(1)

RatMul(a, b) == Rat(a.num * b.num, a.den * b.den)
RatSub(a, b) == Rat(a.num * b.den - b.num * a.den, a.den * b.den)
RatDiv(a, b) == IF b.num = 0 THEN ZeroDivisionError
                ELSE Rat(a.num * b.den, a.den * b.num)
RatGT(a, b) == a.num * b.den > b.num * a.den

(* --------------------------- configuration ----------------------------- *)
\* the float values the configuration and the random draws range over
Zero == Rat(0, 1)
Half == Rat(1, 2)

Configs ==
    [seed : {DefaultSeed},
     conditional_dropout : {Zero, Half, One},
     write_schedule : BOOLEAN,
     shuffle_tags : BOOLEAN,
     rated_dataset : BOOLEAN,
     rated_dataset_dropout_target : {Zero, Half, One}]

\* random.random() yields a float in [0, 1)
Draws == {Zero, Half}

VARIABLES
    cfg,                 \* the constructor's arguments
    seed,                \* self.seed
    image_train_items,   \* self.image_train_items
    pc,                  \* trainer thread: where it is in __init__ / shuffle
    args,                \* epoch_n, max_epochs of the shuffle call in progress
    sched_i,             \* loop index i of __write_batch_schedule
    shuffleCalls,        \* number of shuffle() calls begun
    callResult,          \* ordering the last successful collaborator call returned
    ordEpoch,            \* number of shuffle() calls begun when the ordering was installed
    last,                \* the most recent call: its arguments and its outcome
    gpc,                 \* fetch thread: where it is in __getitem__
    train_item,          \* fetch thread: __getitem__'s local train_item
    gview                \* fetch thread: the ordering epoch and the seed its get read

vars == <<cfg, seed, image_train_items, pc, args, sched_i, shuffleCalls, callResult,
          ordEpoch, last, gpc, train_item, gview>>

trainerVars == <<seed, image_train_items, pc, args, sched_i, shuffleCalls, callResult,
                 ordEpoch>>
fetchVars == <<gpc, train_item, gview>>

None == [kind |-> "none"]
NoArgs == [epoch_n |-> -1, max_epochs |-> -1]
NoView == [ordEpoch |-> -1, seedCalls |-> -1, seed |-> -1]

InitWith(configs) ==
    /\ cfg \in configs
    /\ seed = 0
    /\ image_train_items = <<>>
    /\ pc = "new"
    /\ args = NoArgs
    /\ sched_i = 0
    /\ shuffleCalls = 0
    /\ callResult = <<>>
    /\ ordEpoch = 0
    /\ last = [op |-> "none"]
    /\ gpc = "idle"
    /\ train_item = None
    /\ gview = NoView

Init == InitWith(Configs)

\* the object exists once __init__ has returned
Constructed == pc \in {"idle", "seeded", "sh_sched"}

(* ----------------------- trainer thread: __init__ ---------------------- *)
\* the record of a __init__ (epoch_n = -1) or shuffle call
Call(op, a, fraction, outcome) ==
    [op |-> op, epoch_n |-> a.epoch_n, max_epochs |-> a.max_epochs,
     fraction |-> fraction, outcome |-> outcome, file |-> -1, attempts |-> <<>>]

\* open(f"{log_folder}/ep{epoch_n}_batch_schedule.txt", "w")
Opened(call, epoch_n) == [call EXCEPT !.file = epoch_n]

\* bug: the assignment is forgotten and the old list stays
InstallOrdering_keep(old, new) == old

\* bug: the new list is appended to the old one instead of replacing it
InstallOrdering_extend(old, new) == old \o new

\* self.image_train_items = <the list the collaborator returned>
InstallOrdering(old, new) == new

\* __init__: the fields are set, the first ordering is requested with fraction
\* 1.0, and the schedule file is opened when write_schedule is set.  The
\* collaborator or open() may raise: then no object exists.
Construct ==
    /\ pc = "new"
    /\ seed' = cfg.seed
    /\ ordEpoch' = 0
    /\ \/ \* get_shuffled_image_buckets raises
          /\ pc' = "dead"
          /\ last' = Call("init", NoArgs, One, "error")
          /\ UNCHANGED <<image_train_items, callResult>>
       \/ \E r \in Orderings :
            /\ image_train_items' = InstallOrdering(image_train_items, r)
            /\ callResult' = r
            /\ IF ~cfg.write_schedule
               THEN pc' = "idle" /\ last' = Call("init", NoArgs, One, "ok")
               ELSE \/ /\ pc' = "ctor_sched"
                       /\ last' = Opened(Call("init", NoArgs, One, "running"), 0)
                    \/ \* open() raises
                       /\ pc' = "dead"
                       /\ last' = Call("init", NoArgs, One, "error")
    /\ sched_i' = 0
    /\ UNCHANGED <<cfg, args, shuffleCalls>>
    /\ UNCHANGED fetchVars

(* ----------------- trainer thread: __write_batch_schedule -------------- *)
\* int(i / self.batch_size) for the 0-based index i
Step(i) == i \div BatchSize

\* one pass of the loop body: ok = the line was written, ~ok = the write raised
\* and logging.error recorded the item's path
Attempt(i, ok) ==
    [i |-> i, ok |-> ok, step |-> Step(i), item |-> image_train_items[i + 1]]

\* f.write(...) succeeds for entry i
EntryWritten ==
    /\ pc \in {"ctor_sched", "sh_sched"}
    /\ sched_i < Len(image_train_items)
    /\ last' = [last EXCEPT !.attempts = Append(@, Attempt(sched_i, TRUE))]
    /\ sched_i' = sched_i + 1
    /\ UNCHANGED <<cfg, seed, image_train_items, pc, args, shuffleCalls, callResult,
                   ordEpoch>>
    /\ UNCHANGED fetchVars

\* bug: no try/except around the write, the error leaves the loop and the call
EntryFailed_aborts ==
    /\ pc \in {"ctor_sched", "sh_sched"}
    /\ sched_i < Len(image_train_items)
    /\ last' = [last EXCEPT !.outcome = "error"]
    /\ pc' = IF pc = "ctor_sched" THEN "dead" ELSE "idle"
    /\ args' = NoArgs
    /\ UNCHANGED <<cfg, seed, image_train_items, sched_i, shuffleCalls, callResult,
                   ordEpoch>>
    /\ UNCHANGED <<gpc, train_item, gview>>

\* f.write(...) raises for entry i: except Exception -> logging.error, next i
EntryFailed ==
    /\ pc \in {"ctor_sched", "sh_sched"}
    /\ sched_i < Len(image_train_items)
    /\ last' = [last EXCEPT !.attempts = Append(@, Attempt(sched_i, FALSE))]
    /\ sched_i' = sched_i + 1
    /\ UNCHANGED <<cfg, seed, image_train_items, pc, args, shuffleCalls, callResult,
                   ordEpoch>>
    /\ UNCHANGED fetchVars

\* range(len(self.image_train_items)) is exhausted: the file is closed and
\* __init__ / shuffle returns
CloseSchedule ==
    /\ pc \in {"ctor_sched", "sh_sched"}
    /\ sched_i >= Len(image_train_items)
    /\ last' = [last EXCEPT !.outcome = "ok"]
    /\ pc' = "idle"
    /\ args' = NoArgs
    /\ UNCHANGED <<cfg, seed, image_train_items, sched_i, shuffleCalls, callResult,
                   ordEpoch>>
    /\ UNCHANGED fetchVars

(* ------------------------ trainer thread: shuffle ---------------------- *)
\* bug: the seed is not advanced
NextSeed_stuck(s) == s

\* self.seed += 1
NextSeed(s) == s + 1

\* bug: the ramp is computed for the epoch about to start (epoch_n + 1)
DropoutFraction_next(rated_dataset, target, epoch_n, max_epochs) ==
    IF rated_dataset
    THEN RatDiv(RatSub(FromInt(max_epochs), RatMul(FromInt(epoch_n + 1), target)),
                FromInt(max_epochs))
    ELSE One

\* bug: the ramp is computed whether or not the dataset is rated
DropoutFraction_always(rated_dataset, target, epoch_n, max_epochs) ==
    RatDiv(RatSub(FromInt(max_epochs), RatMul(FromInt(epoch_n), target)),
           FromInt(max_epochs))

\* dropout_fraction of shuffle(epoch_n, max_epochs)
DropoutFraction(rated_dataset, target, epoch_n, max_epochs) ==
    IF rated_dataset
    THEN RatDiv(RatSub(FromInt(max_epochs), RatMul(FromInt(epoch_n), target)),
                FromInt(max_epochs))
    ELSE One

\* shuffle(epoch_n, max_epochs) is entered: self.seed += 1
ShuffleSeed ==
    /\ pc = "idle"
    /\ shuffleCalls < MaxShuffles
    /\ \E e \in 0..MaxEpochs, m \in 0..MaxEpochs :
         /\ args' = [epoch_n |-> e, max_epochs |-> m]
         /\ last' = Call("shuffle", args', NoFraction, "running")
    /\ seed' = NextSeed(seed)
    /\ shuffleCalls' = shuffleCalls + 1
    /\ pc' = "seeded"
    /\ UNCHANGED <<cfg, image_train_items, sched_i, callResult, ordEpoch>>
    /\ UNCHANGED fetchVars

\* the fraction is computed, the collaborator is called and its result is
\* assigned to self.image_train_items (one reference assignment); then the
\* schedule file is opened when write_schedule is set.  The division, the
\* collaborator and open() may raise: shuffle then ends with that error.
ShuffleFetch ==
    /\ pc = "seeded"
    /\ LET f == DropoutFraction(cfg.rated_dataset, cfg.rated_dataset_dropout_target,
                                args.epoch_n, args.max_epochs)
       IN  IF f = ZeroDivisionError
           THEN /\ pc' = "idle"
                /\ last' = Call("shuffle", args, f, "error")
                /\ UNCHANGED <<image_train_items, callResult, ordEpoch>>
           ELSE \/ \* get_shuffled_image_buckets raises
                   /\ pc' = "idle"
                   /\ last' = Call("shuffle", args, f, "error")
                   /\ UNCHANGED <<image_train_items, callResult, ordEpoch>>
                \/ \E r \in Orderings :
                     /\ image_train_items' = InstallOrdering(image_train_items, r)
                     /\ callResult' = r
                     /\ ordEpoch' = shuffleCalls
                     /\ IF ~cfg.write_schedule
                        THEN /\ pc' = "idle"
                             /\ last' = Call("shuffle", args, f, "ok")
                        ELSE \/ /\ pc' = "sh_sched"
                                /\ last' = Opened(Call("shuffle", args, f, "running"),
                                                  args.epoch_n + 1)
                             \/ \* open() raises
                                /\ pc' = "idle"
                                /\ last' = Call("shuffle", args, f, "error")
    /\ args' = IF pc' = "idle" THEN NoArgs ELSE args
    /\ sched_i' = 0
    /\ UNCHANGED <<cfg, seed, shuffleCalls>>
    /\ UNCHANGED fetchVars

(* ------------------------------- __len__ ------------------------------- *)
\* len(self.image_train_items)
len_(items) == Len(items)

LenCall ==
    /\ pc = "idle"
    /\ last' = [op |-> "len", value |-> len_(image_train_items)]
    /\ UNCHANGED cfg
    /\ UNCHANGED trainerVars
    /\ UNCHANGED fetchVars

(* ----------------------------- __getitem__ ----------------------------- *)
\* image_train_item.hydrate(crop=False, save=save, crop_jitter=self.crop_jitter)
\* and the three fields __get_image_for_trainer copies from it
Hydrate(item) ==
    [image |-> [kind |-> "image", item |-> item],
     caption |-> [kind |-> "caption", item |-> item],
     runt_size |-> [kind |-> "runt_size", item |-> item]]

\* bug: the tags are shuffled with the seed the object was constructed with
Caption_initial(shuffle_tags, caption, s) ==
    IF shuffle_tags
    THEN [kind |-> "get_shuffled_caption", caption |-> caption, seed |-> cfg.seed]
    ELSE [kind |-> "get_caption", caption |-> caption, seed |-> -1]

\* the caption string of the sample
Caption(shuffle_tags, caption, s) ==
    IF shuffle_tags
    THEN [kind |-> "get_shuffled_caption", caption |-> caption, seed |-> s]
    ELSE [kind |-> "get_caption", caption |-> caption, seed |-> -1]

\* the string " "
Blank == [kind |-> "blank", caption |-> None, seed |-> -1]

\* self.tokenizer(text, truncation=True, padding="max_length", ...).input_ids
Tokenizer(text) == [kind |-> "input_ids", of |-> text]

\* the tokens of the sample for one random draw
Tokens(draw, conditional_dropout, caption) ==
    IF RatGT(draw, conditional_dropout) THEN Tokenizer(caption) ELSE Tokenizer(Blank)

\* the example __getitem__ returns (the image normalisation is left out)
Example(hydrated, s, draw) ==
    LET caption == Caption(cfg.shuffle_tags, hydrated.caption, s)
    IN  [image |-> hydrated.image,
         caption |-> caption,
         tokens |-> Tokens(draw, cfg.conditional_dropout, caption),
         runt_size |-> hydrated.runt_size]

\* the record of a __getitem__(i) call: the items hydrate() was called on, the
\* random draw, and the example returned or the error raised
Got(i, outcome, items, draw, example) ==
    [op |-> "getitem", i |-> i, outcome |-> outcome, hydrated |-> items,
     draw |-> draw, example |-> example]

\* self.image_train_items[i] raises IndexError (i is the 0-based index)
GetIndexError(i) ==
    /\ pc = "idle"
    /\ i >= Len(image_train_items)
    /\ last' = Got(i, "IndexError", <<>>, None, None)
    /\ UNCHANGED cfg
    /\ UNCHANGED trainerVars
    /\ UNCHANGED fetchVars

\* bug: the item that cannot be hydrated is dropped from the ordering
GetHydrateFails_drops(i) ==
    /\ pc = "idle"
    /\ i < Len(image_train_items)
    /\ last' = Got(i, "hydrate_error", <<image_train_items[i + 1]>>, None, None)
    /\ image_train_items' = SubSeq(image_train_items, 1, i)
                            \o SubSeq(image_train_items, i + 2, Len(image_train_items))
    /\ UNCHANGED <<cfg, seed, pc, args, sched_i, shuffleCalls, callResult, ordEpoch>>
    /\ UNCHANGED <<gpc, train_item, gview>>

\* hydrate() raises: nothing in __getitem__ catches it
GetHydrateFails(i) ==
    /\ pc = "idle"
    /\ i < Len(image_train_items)
    /\ last' = Got(i, "hydrate_error", <<image_train_items[i + 1]>>, None, None)
    /\ UNCHANGED cfg
    /\ UNCHANGED trainerVars
    /\ UNCHANGED fetchVars

\* bug: a get consumes the item it returns
GetItem_consumes(i) ==
    /\ pc = "idle"
    /\ i < Len(image_train_items)
    /\ \E draw \in Draws :
         last' = Got(i, "example", <<image_train_items[i + 1]>>, draw,
                     Example(Hydrate(image_train_items[i + 1]), seed, draw))
    /\ image_train_items' = SubSeq(image_train_items, 1, i)
                            \o SubSeq(image_train_items, i + 2, Len(image_train_items))
    /\ UNCHANGED <<cfg, seed, pc, args, sched_i, shuffleCalls, callResult, ordEpoch>>
    /\ UNCHANGED <<gpc, train_item, gview>>

\* __getitem__(i) returns an example
GetItem(i) ==
    /\ pc = "idle"
    /\ i < Len(image_train_items)
    /\ \E draw \in Draws :
         last' = Got(i, "example", <<image_train_items[i + 1]>>, draw,
                     Example(Hydrate(image_train_items[i + 1]), seed, draw))
    /\ UNCHANGED cfg
    /\ UNCHANGED trainerVars
    /\ UNCHANGED fetchVars

Next ==
    \/ Construct
    \/ EntryWritten
    \/ EntryFailed
    \/ CloseSchedule
    \/ ShuffleSeed
    \/ ShuffleFetch
    \/ LenCall
    \/ \E i \in 0..MaxLen : GetIndexError(i)
    \/ \E i \in 0..(MaxLen - 1) : GetHydrateFails(i)
    \/ \E i \in 0..(MaxLen - 1) : GetItem(i)

Spec == Init /\ [][Next]_vars

(* --------------- __getitem__ on a fetch thread (SpecC) ----------------- *)
\* train_item = self.__get_image_for_trainer(self.image_train_items[i], ...)
GetRead(i) ==
    /\ Constructed
    /\ gpc = "idle"
    /\ i < Len(image_train_items)
    /\ train_item' = Hydrate(image_train_items[i + 1])
    /\ gview' = [NoView EXCEPT !.ordEpoch = ordEpoch]
    /\ gpc' = "hydrated"
    /\ UNCHANGED <<cfg, last>>
    /\ UNCHANGED trainerVars

\* the rest of __getitem__: self.seed is read when shuffle_tags is set, the
\* draw is made and the example is returned
GetFinish ==
    /\ gpc = "hydrated"
    /\ gview' = IF cfg.shuffle_tags
                THEN [gview EXCEPT !.seed = seed, !.seedCalls = shuffleCalls]
                ELSE gview
    /\ train_item' = None
    /\ gpc' = "idle"
    /\ UNCHANGED <<cfg, last>>
    /\ UNCHANGED trainerVars

\* the configurations of SpecC: the schedule file and the caption dropout play
\* no part in how shuffle and __getitem__ interleave
ConfigsC ==
    {c \in Configs : /\ ~c.write_schedule
                     /\ c.conditional_dropout = Half
                     /\ c.rated_dataset_dropout_target = Half}

InitC == InitWith(ConfigsC)

NextC ==
    \/ Construct
    \/ ShuffleSeed
    \/ ShuffleFetch
    \/ \E i \in 0..(MaxLen - 1) : GetRead(i)
    \/ GetFinish

SpecC == InitC /\ [][NextC]_vars

(* ================================ claims =============================== *)

\* C1: after the k-th shuffle call the seed is the constructor's seed + k: each
\* shuffle call raises it by exactly 1 (also one that ends in an error), and
\* neither construction, __len__, __getitem__ nor the schedule writing changes it.
C1_SeedCounts == pc # "new" => seed = cfg.seed + shuffleCalls

C1_Witness ==
    /\ shuffleCalls = 2
    /\ pc = "idle"
    /\ last.op = "getitem"
    /\ seed = DefaultSeed + 2

\* C2: with rated_dataset set, for max_epochs >= 1 and epoch_n in 0..max_epochs
\* the fraction computed by shuffle is (max_epochs - epoch_n * target) / max_epochs:
\* 1 at epoch_n = 0 and 1 - target at epoch_n = max_epochs.
C2_RatedFraction ==
    (/\ last.op = "shuffle"
     /\ last.fraction # NoFraction
     /\ cfg.rated_dataset
     /\ last.max_epochs >= 1
     /\ last.epoch_n <= last.max_epochs)
    => LET t == cfg.rated_dataset_dropout_target
           e == last.epoch_n
           m == last.max_epochs
           f == last.fraction
       IN  /\ f.kind = "rat"
           /\ f.num * (m * t.den) = (m * t.den - e * t.num) * f.den
           /\ e = 0 => f.num = f.den
           /\ e = m => f.num * t.den = (t.den - t.num) * f.den

C2_Witness ==
    /\ last.op = "shuffle"
    /\ last.outcome = "ok"
    /\ cfg.rated_dataset
    /\ cfg.rated_dataset_dropout_target = Half
    /\ last.epoch_n = 2
    /\ last.max_epochs = 2
    /\ last.fraction = Half

\* C3: with rated_dataset unset every shuffle call computes the fraction 1,
\* whatever epoch_n, max_epochs (0 included: no division happens) and the target.
C3_UnratedFraction ==
    (last.op = "shuffle" /\ last.fraction # NoFraction /\ ~cfg.rated_dataset)
    => last.fraction = One

C3_Witness ==
    /\ last.op = "shuffle"
    /\ last.outcome = "ok"
    /\ ~cfg.rated_dataset
    /\ cfg.rated_dataset_dropout_target = One
    /\ last.epoch_n = 2
    /\ last.max_epochs = 0
    /\ last.fraction = One

\* C4: __len__ returns the size of the ordering the most recent successful
\* get_shuffled_image_buckets call returned; construction asks for fraction 1.
C4_LenIsLastOrdering ==
    /\ last.op = "len" => last.value = Len(callResult)
    /\ last.op = "init" => last.fraction = One
    /\ Constructed => Len(image_train_items) = Len(callResult)

C4_Witness ==
    /\ last.op = "len"
    /\ shuffleCalls = 1
    /\ ordEpoch = 1
    /\ last.value = 2

\* C5: conditional_dropout = 1 blanks every sample, conditional_dropout = 0
\* blanks none, and the caption is kept exactly when draw > conditional_dropout,
\* for every draw in [0, 1).
C5_DropoutBoundaries ==
    (last.op = "getitem" /\ last.outcome = "example")
    => LET ex == last.example
       IN  /\ cfg.conditional_dropout = One => ex.tokens = Tokenizer(Blank)
           /\ cfg.conditional_dropout = Zero => ex.tokens = Tokenizer(ex.caption)
           /\ ex.tokens = Tokenizer(ex.caption)
                <=> RatGT(last.draw, cfg.conditional_dropout)

\* C6: a failed schedule entry does not end the call: every index is attempted,
\* in order, a failure at one index is followed by the attempt at the next, and
\* the call returns normally with the seed advanced and the ordering installed.
C6_ScheduleBestEffort ==
    (last.op \in {"init", "shuffle"} /\ last.file # -1)
    => /\ last.outcome \in {"running", "ok"}
       /\ last.file = last.epoch_n + 1
       /\ Len(last.attempts) = sched_i
       /\ \A j \in 1..Len(last.attempts) :
            /\ last.attempts[j].i = j - 1
            /\ last.attempts[j].item = image_train_items[j]
       /\ last.outcome = "running" => pc \in {"ctor_sched", "sh_sched"}
       /\ last.outcome = "ok" =>
            /\ pc = "idle"
            /\ Len(last.attempts) = Len(image_train_items)
            /\ seed = cfg.seed + shuffleCalls
            /\ image_train_items = callResult
            /\ ordEpoch = shuffleCalls

C6_Witness ==
    /\ last.op = "shuffle"
    /\ last.outcome = "ok"
    /\ pc = "idle"
    /\ Len(last.attempts) = 2
    /\ ~last.attempts[1].ok
    /\ last.attempts[2].ok

\* C7: a __getitem__(i) whose hydration fails ends in that error: hydrate was
\* called once, on ordering[i], no example is returned, and the seed, the
\* ordering and everything else of the object are as before the call.
C7_HydrateErrorSurfaces ==
    [][(last'.op = "getitem" /\ last'.outcome = "hydrate_error")
       => /\ last'.hydrated = <<image_train_items[last'.i + 1]>>
          /\ last'.example = None
          /\ UNCHANGED <<cfg, seed, image_train_items, pc, shuffleCalls, callResult>>]_vars

C7_Witness ==
    /\ last.op = "getitem"
    /\ last.outcome = "hydrate_error"
    /\ last.i = 1
    /\ shuffleCalls = 1

\* C8: __len__ and __getitem__ calls leave the ordering and the seed as they
\* are; __len__ returns the ordering's length and __getitem__(i) resolves to
\* ordering[i]; the ordering changes only inside __init__ and shuffle.
C8_GetAndLenFrame ==
    [][/\ (pc = "idle" /\ pc' = "idle")
          => /\ UNCHANGED <<seed, image_train_items>>
             /\ last'.op \in {"len", "getitem"}
             /\ last'.op = "len" => last'.value = Len(image_train_items)
             /\ (last'.op = "getitem" /\ last'.outcome = "example")
                  => last'.example.image.item = image_train_items[last'.i + 1]
       /\ image_train_items' # image_train_items => pc \in {"new", "seeded"}]_vars

C8_Witness ==
    /\ last.op = "getitem"
    /\ last.outcome = "example"
    /\ last.i = 1
    /\ shuffleCalls = 1
    /\ Len(image_train_items) = 2

\* C9: with shuffle_tags set a get after the k-th shuffle call asks for the
\* shuffled caption with seed = constructor's seed + k; with shuffle_tags unset
\* it asks for the stable caption and passes no seed.
C9_CaptionSeed ==
    (last.op = "getitem" /\ last.outcome = "example")
    => LET c == last.example.caption
       IN  IF cfg.shuffle_tags
           THEN c.kind = "get_shuffled_caption" /\ c.seed = cfg.seed + shuffleCalls
           ELSE c.kind = "get_caption" /\ c.seed = -1

C9_Witness ==
    /\ last.op = "getitem"
    /\ last.outcome = "example"
    /\ cfg.shuffle_tags
    /\ shuffleCalls = 2
    /\ last.example.caption.seed = DefaultSeed + 2

\* the active ordering is one whole list returned by one collaborator call
WholeOrdering == pc # "new" => image_train_items = callResult

\* C10 as claimed: the ordering is always one whole returned list, and the seed
\* a get reads belongs to the epoch of the ordering it read its item from.
C10_SeedMatchesOrdering ==
    /\ WholeOrdering
    /\ gview.seed # -1 => gview.seed = cfg.seed + gview.ordEpoch

\* C10 as amended: the ordering is always one whole returned list; the seed a
\* get reads is the constructor's seed + the number of shuffle calls begun by
\* then, which is never behind the epoch of the ordering it read its item from
\* and is ahead of it when a shuffle call began in between.
C10_SeedNotBehindOrdering ==
    /\ WholeOrdering
    /\ gview.seed # -1 =>
         /\ gview.seed = cfg.seed + gview.seedCalls
         /\ gview.seedCalls >= gview.ordEpoch
         /\ gview.seedCalls <= shuffleCalls

C10_Witness ==
    /\ gpc = "idle"
    /\ gview.ordEpoch = 0
    /\ gview.seed = DefaultSeed + 1
    /\ pc = "idle"
    /\ last.op = "shuffle"
    /\ last.outcome = "error"

====
